---- MODULE Spec2Model ----
(***************************************************************************)
(* Model of the Pat radio control panel: the service supervisor            *)
(* (pat_gui.py RadioGUI, pat_tab.py / radio_gui.py MainWindow), the        *)
(* configuration snapshot (config_tab.py, radio_gui.py), the GPS           *)
(* telemetry decoder (gps_tab.py GPSWindow, radio_gui.py MainWindow), the  *)
(* device probes and the views of main.py that write the one file.         *)
(***************************************************************************)
EXTENDS Integers, Sequences, FiniteSets, TLC

VARIABLES
    app,               \* which program hosts the session: "pat_gui", "radio_gui", "main"
    usb_var,           \* RadioGUI.usb_var (pat_gui.py:49)
    audio_var,         \* RadioGUI.audio_var (pat_gui.py:56): the selected item's text, as tokens
    processes,         \* self.processes: the retained process handles
    services_running,  \* MainWindow.services_running (pat_tab.py:34, radio_gui.py:90)
    effects,           \* external calls made by the most recent handler, in program order
    lastOp,            \* the handler that ran most recently
    file,              \* content of the configuration file CONFIG_PATH
    cfg_m,             \* module-level cfg of the supervisor module (pat_tab.py:9, radio_gui.py:16)
    rig_live,          \* rig_cfg is the live section proxy (TRUE) or the plain {} (FALSE)
    audio_live,        \* audio_cfg is the live section proxy (TRUE) or the plain {} (FALSE)
    cfg_c,             \* module-level cfg of config_tab.py (config_tab.py:13)
    rigsAvail,         \* rigs found by list_rigs() when the Configure form was built
    audAvail,          \* audio pairs found by list_audio_pairs() when the form was built
    savedOnce,         \* a save_config has rewritten the file in this session
    startedAfterSave,  \* the running services were started after the latest completed save
    b_rig,             \* the rig_cfg mapping build_service_commands is applied to
    b_audio,           \* the audio_cfg mapping build_service_commands is applied to
    b_cmds,            \* what build_service_commands returned, <<>> before the call
    gw,                \* GPSWindow of gps_tab.py: its labels and current_grid
    mw,                \* MainWindow of radio_gui.py: its GPS fields and labels
    lastChunk,         \* the text the most recent parse_gps read from the process
    gps_exc,           \* the exception the most recent parse_gps raised, "none" if none
    alive,             \* the session has not been aborted
    observed,          \* kinds of valid sentence delivered so far: "rmc", "gga", "fix"
    gridWrite,         \* the most recent handler wrote the grid output (setText)
    f_in,              \* a $GPGGA's latitude, hemisphere, longitude, hemisphere fields
    f_dd,              \* <<lat_dd, lon_dd>> decoded from f_in, <<>> before
    f_grid,            \* latlon_to_grid(lat_dd, lon_dd), <<>> before the call
    probe,             \* the most recent device probe: what it was given and returned
    cfg_g,             \* module-level cfg of gps_tab.py (gps_tab.py:27)
    streams,           \* the output of each launched process that can still reach the log
    forwarded,         \* the text the forwarders have put into the display log
    emitted            \* every <<service, line>> a supervised process has written so far

supVars == <<app, usb_var, audio_var, processes, services_running, effects, lastOp,
             file, cfg_m, rig_live, audio_live, cfg_c, rigsAvail, audAvail,
             savedOnce, startedAfterSave>>

cfgVars == <<file, cfg_m, rig_live, audio_live, cfg_c, rigsAvail, audAvail,
             savedOnce, startedAfterSave>>

buildVars == <<b_rig, b_audio, b_cmds>>

gpsVars == <<gw, mw, lastChunk, gps_exc, alive, observed, gridWrite>>

fixVars == <<f_in, f_dd, f_grid>>

\* The variables of the components checked on their own.
extraVars == <<fixVars, probe, cfg_g>>

logVars == <<streams, forwarded, emitted>>

\* What the supervisor's handlers leave alone.
notSup == <<buildVars, gpsVars, extraVars>>

vars == <<supVars, buildVars, gpsVars, extraVars, logVars>>

\* The components checked on their own, before anything is given to them.
FixIdle == f_in = <<>> /\ f_dd = <<>> /\ f_grid = <<>>

\* No process has been launched: nothing to forward and nothing in the log.
LogIdle == streams = <<>> /\ forwarded = <<>> /\ emitted = <<>>

ExtraIdle == FixIdle /\ probe = <<>> /\ cfg_g = <<>> /\ LogIdle

----------------------------------------------------------------------------
(* Bounds *)

\* The most entries a listing of /dev, or the output of a probe command, holds.
MaxListed == 3

\* RadioGUI.start_services is not enabled once a further start would retain
\* more than this many handles.
MaxHandles == 6

----------------------------------------------------------------------------
(* Service names and external calls *)

ServiceNames == <<"rigctld", "ardopcf", "pat">>

NameSet == {ServiceNames[i] : i \in 1..3}

Effect(op, name, argv) == [op |-> op, name |-> name, argv |-> argv]

Handle(name, argv, up) == [name |-> name, argv |-> argv, up |-> up]

\* os.path.expanduser('~/ardop_logs')
ArdopLogDir == "$HOME/ardop_logs"

\* The merged stdout/stderr of one launched process and the forwarder bound to
\* it: the service name the forwarder was given, the text written and not yet
\* read, whether the process still holds the write end, and the line a worker
\* thread has read and not yet inserted.
Stream(name) == [name |-> name, pipe |-> <<>>, open |-> TRUE, held |-> <<>>]

\* One forwarder per launched process, bound to that process and its name:
\* threading.Thread(target=self._stream_output, args=(p, name)) in pat_gui.py,
\* readyReadStandardOutput.connect(lambda pr=p: ...) in pat_tab.py and
\* radio_gui.py. A program that could not be launched writes nothing.
Forwarders(handles) ==
    LET up == SelectSeq(handles, LAMBDA h : h.up)
    IN [i \in 1..Len(up) |-> Stream(up[i].name)]

\* The handles a start has added to the retained ones.
Launched(before, after) == SubSeq(after, Len(before) + 1, Len(after))

\* The streams that can still deliver text; a forwarder at the end of a
\* closed, drained stream does nothing more.
Live(ss) == SelectSeq(ss, LAMBDA s : s.open \/ s.pipe # <<>> \/ s.held # <<>>)

\* Every supervised process has been ended (terminate / kill and killall by
\* name): text already written stays readable.
Ended(ss) == Live([i \in 1..Len(ss) |-> [ss[i] EXCEPT !.open = FALSE]])

----------------------------------------------------------------------------
(* pat_gui.py *)

\* The text f"Card {c} hw:{hw}" of a dropdown item, as its tokens.
AudioItem(c, hw) == <<"Card", c, "hw:", hw>>

\* The empty string of an unset StringVar / a combo box without items.
NoText == <<>>

\* None, as parse_audio returns it.
NoAudio == [card |-> "", hw |-> ""]

\* parse_audio: re.match(r"Card\s+(\d+)\s+hw:(\d+,\d+)", text); the groups when
\* the text is an item's, None otherwise.
parse_audio(text) ==
    IF Len(text) = 4 /\ text[1] = "Card" /\ text[3] = "hw:"
    THEN [card |-> text[2], hw |-> text[4]]
    ELSE NoAudio

PatGui_build_service_commands(usb_dev, audio_pair) ==
    << <<"rigctld", "-m", "2050", "-r", "/dev/" \o usb_dev,
         "-s", "9600", "-P", "RTS", "-D", "RIG">>,
       <<"./ardopcf", "--logdir", ArdopLogDir, "-p", "/dev/" \o usb_dev, "8515",
         "plughw:" \o audio_pair.hw, "plughw:" \o audio_pair.hw>>,
       <<"pat", "--listen=ardop,telnet", "http">> >>

\* refresh_usb: the first listed device is selected, or "" when none is listed.
refresh_usb(devices) ==
    /\ app = "pat_gui"
    /\ usb_var' = IF devices # <<>> THEN devices[1] ELSE ""
    /\ effects' = <<>>
    /\ lastOp' = "refresh_usb"
    /\ UNCHANGED <<notSup, logVars>>
    /\ UNCHANGED <<app, audio_var, processes, services_running, cfgVars>>

\* refresh_audio: the first probed pair is selected, or "" when the probe
\* (run_ardopcf_probe) found none or exited non-zero.
refresh_audio(pairs) ==
    /\ app = "pat_gui"
    /\ audio_var' = IF pairs # <<>> THEN AudioItem(pairs[1][1], pairs[1][2]) ELSE NoText
    /\ effects' = <<>>
    /\ lastOp' = "refresh_audio"
    /\ UNCHANGED <<notSup, logVars>>
    /\ UNCHANGED <<app, usb_var, processes, services_running, cfgVars>>

RECURSIVE PopenLoop(_, _, _)
\* The for loop of start_services from command i on: subprocess.Popen raises
\* (executable absent) at command failAt and the loop is abandoned there;
\* failAt = 0 means every launch succeeds.
PopenLoop(cmds, i, failAt) ==
    IF i > 3 THEN [handles |-> <<>>, effects |-> <<>>]
    ELSE IF i = failAt
         THEN [handles |-> <<>>,
               effects |-> <<Effect("spawn_raised", ServiceNames[i], cmds[i])>>]
         ELSE LET rest == PopenLoop(cmds, i + 1, failAt)
              IN [handles |-> <<Handle(ServiceNames[i], cmds[i], TRUE)>> \o rest.handles,
                  effects |-> <<Effect("spawn", ServiceNames[i], cmds[i])>> \o rest.effects]

\* The state start_services leaves: the handles retained and the calls made.
StartServicesResult(procs, usb, av, failAt) ==
    LET audio == parse_audio(av)
    IN IF usb = "" \/ audio = NoAudio
       THEN [processes |-> procs, effects |-> <<Effect("showwarning", "", <<>>)>>]
       ELSE LET run == PopenLoop(PatGui_build_service_commands(usb, audio), 1, failAt)
            IN [processes |-> procs \o run.handles, effects |-> run.effects]

start_services(failAt) ==
    /\ app = "pat_gui"
    /\ Len(processes) + 3 <= MaxHandles
    /\ LET r == StartServicesResult(processes, usb_var, audio_var, failAt)
       IN /\ processes' = r.processes
          /\ effects' = r.effects
          /\ streams' = streams \o Forwarders(Launched(processes, r.processes))
    /\ lastOp' = "start_services"
    /\ UNCHANGED <<notSup, forwarded, emitted>>
    /\ UNCHANGED <<app, usb_var, audio_var, services_running, cfgVars>>

\* The three subprocess.run(['killall', name]) of stop_services, in order; the
\* exit status is not checked (no check=True).
KillallSweep == [i \in 1..3 |-> Effect("killall", "", <<ServiceNames[i]>>)]

\* A stop_services that returns at once when no handle is tracked.
StopServicesResult_SkipWhenIdle(procs) ==
    IF procs = <<>>
    THEN [processes |-> procs, effects |-> <<>>]
    ELSE [processes |-> <<>>,
          effects |-> [i \in 1..Len(procs) |-> Effect("terminate", procs[i].name, <<>>)]
                      \o KillallSweep
                      \o <<Effect("clear", "", <<>>)>>]

\* The state stop_services leaves: p.terminate() on every retained handle, the
\* killall runs, then processes.clear().
StopServicesResult(procs) ==
    [processes |-> <<>>,
     effects |-> [i \in 1..Len(procs) |-> Effect("terminate", procs[i].name, <<>>)]
                 \o KillallSweep
                 \o <<Effect("clear", "", <<>>)>>]

stop_services ==
    /\ app = "pat_gui"
    /\ LET r == StopServicesResult(processes)
       IN /\ processes' = r.processes
          /\ effects' = r.effects
    /\ streams' = Ended(streams)
    /\ lastOp' = "stop_services"
    /\ UNCHANGED <<notSup, forwarded, emitted>>
    /\ UNCHANGED <<app, usb_var, audio_var, services_running, cfgVars>>

----------------------------------------------------------------------------
(* The configuration: configparser objects and the file *)

\* A key the section does not hold.
Absent == "<absent>"

RigOpts == {"my_call", "my_grid", "model", "device", "baud", "ptt_type", "dcd_type",
            "gps_device"}

AudioOpts == {"card", "hw"}

GpsOpts == {"device", "grid"}

NoSection(opts) == [has |-> FALSE, opt |-> [o \in opts |-> Absent]]

EmptyConfig == [rigctld |-> NoSection(RigOpts), audio |-> NoSection(AudioOpts),
                gps |-> NoSection(GpsOpts)]

\* cfg.add_section(name) when the section is missing.
AddSection(c, name) == [c EXCEPT ![name].has = TRUE]

\* cfg[name][key] = value
SetOpt(c, name, key, value) == [c EXCEPT ![name].opt[key] = value]

\* A plain {} as rig_cfg / audio_cfg are bound to when the section is missing
\* at import.
EmptyDict(opts) == [o \in opts |-> Absent]

\* A get written as mapping.get(key) or default: an empty value counts as missing.
Get_EmptyAsMissing(mapping, key, default) ==
    IF mapping[key] \in {Absent, ""} THEN default ELSE mapping[key]

\* mapping.get(key, default), of a section proxy as of a dict.
Get(mapping, key, default) == IF mapping[key] = Absent THEN default ELSE mapping[key]

\* rig_cfg = cfg['rigctld'] if cfg.has_section('rigctld') else {}, bound once
\* at import: the proxy reads the parser's current content, the dict stays empty.
rig_cfg == IF rig_live THEN cfg_m.rigctld.opt ELSE EmptyDict(RigOpts)

audio_cfg == IF audio_live THEN cfg_m.audio.opt ELSE EmptyDict(AudioOpts)

\* build_service_commands of pat_tab.py and radio_gui.py, over the two mappings.
BuildCommands(rig, audio) ==
    LET model == Get(rig, "model", "2050")
        device == Get(rig, "device", "/dev/ttyUSB0")
        baud == Get(rig, "baud", "9600")
        ptt == Get(rig, "ptt_type", "RTS")
        dcd == Get(rig, "dcd_type", "RIG")
        hw == Get(audio, "hw", "0,0")
    IN << <<"rigctld", "-m", model, "-r", device, "-s", baud, "-P", ptt, "-D", dcd>>,
          <<"./ardopcf", "--logdir", ArdopLogDir, "-p", device, "8515",
            "plughw:" \o hw, "plughw:" \o hw>>,
          <<"pat", "--listen=ardop,telnet", "http">> >>

build_service_commands == BuildCommands(rig_cfg, audio_cfg)

----------------------------------------------------------------------------
(* pat_tab.py / radio_gui.py: toggle_services *)

\* A start branch that retains only the processes that could be launched.
ToggleStart_OnlyLaunched(procs, cmds, upSet) ==
    [processes |-> procs \o SelectSeq([i \in 1..3 |-> Handle(ServiceNames[i], cmds[i], TRUE)],
                                      LAMBDA h : h.name \in upSet),
     effects |-> [i \in 1..3 |-> Effect("start", ServiceNames[i], cmds[i])],
     running |-> TRUE]

\* The start branch: one QProcess per command, started and retained whether or
\* not the program could be launched (QProcess.start does not raise); upSet are
\* the services whose launch succeeded.
ToggleStart(procs, cmds, upSet) ==
    [processes |-> procs \o [i \in 1..3 |->
                                Handle(ServiceNames[i], cmds[i], ServiceNames[i] \in upSet)],
     effects |-> [i \in 1..3 |-> Effect("start", ServiceNames[i], cmds[i])],
     running |-> TRUE]

\* The stop branch: p.kill() on every handle, os.system('killall rigctld
\* ardopcf pat'), processes.clear().
ToggleStop(procs) ==
    [processes |-> <<>>,
     effects |-> [i \in 1..Len(procs) |-> Effect("kill", procs[i].name, <<>>)]
                 \o <<Effect("killall", "", ServiceNames)>>
                 \o <<Effect("clear", "", <<>>)>>,
     running |-> FALSE]

ToggleResult(procs, running, cmds, upSet) ==
    IF ~running THEN ToggleStart(procs, cmds, upSet) ELSE ToggleStop(procs)

toggle_services(upSet) ==
    /\ app \in {"radio_gui", "main"}
    /\ LET r == ToggleResult(processes, services_running, build_service_commands, upSet)
       IN /\ processes' = r.processes
          /\ effects' = r.effects
          /\ services_running' = r.running
          /\ streams' = IF services_running THEN Ended(streams)
                         ELSE streams \o Forwarders(Launched(processes, r.processes))
    /\ lastOp' = IF services_running THEN "toggle_stop" ELSE "toggle_start"
    /\ UNCHANGED <<notSup, forwarded, emitted>>
    /\ startedAfterSave' = (~services_running)
    /\ UNCHANGED <<app, usb_var, audio_var, file, cfg_m, rig_live, audio_live, cfg_c,
                   rigsAvail, audAvail, savedOnce>>

----------------------------------------------------------------------------
(* radio_gui.py / config_tab.py: the Configure form and save_config *)

\* The text f"{n} - {m} {d}" of a rig dropdown item, as its tokens.
RigItem(rig) == <<rig[1], "-", rig[2], rig[3]>>

\* What the form can show: a combo box holds the probed items and its current
\* text is one of them, or the empty string when it has no items.
RigTexts(rigs) ==
    IF rigs = <<>> THEN {NoText} ELSE {RigItem(rigs[i]) : i \in 1..Len(rigs)}

AudioTexts(pairs) ==
    IF pairs = <<>> THEN {NoText}
    ELSE {AudioItem(pairs[i][1], pairs[i][2]) : i \in 1..Len(pairs)}

FormDevs == {"/dev/ttyUSB1", "/dev/ttyACM0"}

FormBauds == {"4800", "19200"}

Forms(rigs, pairs) ==
    [call : {"N0CALL"}, grid : {"DN70"}, rig : RigTexts(rigs), dev : FormDevs,
     baud : FormBauds, ptt : {"DTR"}, dcd : {"CD"}, audio : AudioTexts(pairs),
     gps : {"/dev/ttyACM0"}]

\* Lines 362-368 of radio_gui.py (170-176 of config_tab.py): the rigctld keys.
\* currentText().split()[0] raises IndexError on the empty text; the two
\* assignments before it have been made by then.
SetRigKeys(c, form) ==
    LET c2 == SetOpt(SetOpt(c, "rigctld", "my_call", form.call),
                     "rigctld", "my_grid", form.grid)
    IN IF form.rig = NoText
       THEN [cfg |-> c2, raised |-> TRUE]
       ELSE [cfg |-> SetOpt(SetOpt(SetOpt(SetOpt(SetOpt(c2,
                        "rigctld", "model", form.rig[1]),
                        "rigctld", "device", form.dev),
                        "rigctld", "baud", form.baud),
                        "rigctld", "ptt_type", form.ptt),
                        "rigctld", "dcd_type", form.dcd),
             raised |-> FALSE]

\* len(audio_text) >= 3 and audio_text[0] == 'Card': the text is an item's
\* ("hw:<hw>" is one whitespace-separated word, two tokens here).
IsAudioItem(text) == Len(text) >= 4 /\ text[1] = "Card"

\* MainWindow.save_config of radio_gui.py on the module's cfg; acfgLive tells
\* whether audio_cfg is the live proxy.
RadioSaveResult(c, form, acfgLive) ==
    LET c1 == AddSection(AddSection(c, "rigctld"), "audio")
        r == SetRigKeys(c1, form)
        acfg == IF acfgLive THEN r.cfg.audio.opt ELSE EmptyDict(AudioOpts)
        card == IF IsAudioItem(form.audio) THEN form.audio[2] ELSE Get(acfg, "card", "")
        hw == IF IsAudioItem(form.audio) THEN form.audio[4] ELSE Get(acfg, "hw", "")
    IN IF r.raised
       THEN [cfg |-> r.cfg, written |-> FALSE]
       ELSE [cfg |-> SetOpt(SetOpt(SetOpt(r.cfg, "audio", "card", card),
                                   "audio", "hw", hw),
                            "rigctld", "gps_device", form.gps),
             written |-> TRUE]

\* ConfigWindow.save_config of config_tab.py on that module's cfg.
ConfigTabSaveResult(c, form) ==
    LET c1 == AddSection(AddSection(AddSection(c, "rigctld"), "audio"), "gps")
        r == SetRigKeys(c1, form)
        c3 == IF IsAudioItem(form.audio)
              THEN SetOpt(SetOpt(r.cfg, "audio", "card", form.audio[2]),
                          "audio", "hw", form.audio[4])
              ELSE r.cfg
    IN IF r.raised
       THEN [cfg |-> r.cfg, written |-> FALSE]
       ELSE [cfg |-> SetOpt(c3, "gps", "device", form.gps), written |-> TRUE]

\* with open(CONFIG_PATH, 'w') as f: cfg.write(f) -- the whole file is replaced
\* by the parser's content.
SaveEffects(r) ==
    IF r.written THEN <<Effect("write_file", "", <<>>)>>
    ELSE <<Effect("raise_IndexError", "", <<>>)>>

RadioSaveConfig(form) ==
    /\ app = "radio_gui"
    /\ LET r == RadioSaveResult(cfg_m, form, audio_live)
       IN /\ cfg_m' = r.cfg
          /\ file' = IF r.written THEN r.cfg ELSE file
          /\ savedOnce' = (savedOnce \/ r.written)
          /\ startedAfterSave' = (startedAfterSave /\ ~r.written)
          /\ effects' = SaveEffects(r)
    /\ lastOp' = "save_config"
    /\ UNCHANGED <<notSup, logVars>>
    /\ UNCHANGED <<app, usb_var, audio_var, processes, services_running, rig_live,
                   audio_live, cfg_c, rigsAvail, audAvail>>

ConfigTabSaveConfig(form) ==
    /\ app = "main"
    /\ LET r == ConfigTabSaveResult(cfg_c, form)
       IN /\ cfg_c' = r.cfg
          /\ file' = IF r.written THEN r.cfg ELSE file
          /\ savedOnce' = (savedOnce \/ r.written)
          /\ startedAfterSave' = (startedAfterSave /\ ~r.written)
          /\ effects' = SaveEffects(r)
    /\ lastOp' = "save_config"
    /\ UNCHANGED <<notSup, logVars>>
    /\ UNCHANGED <<app, usb_var, audio_var, processes, services_running, cfg_m,
                   rig_live, audio_live, rigsAvail, audAvail>>

----------------------------------------------------------------------------
(* The supervisor sessions *)

\* Configuration files a session may find at start: none or empty; a rigctld
\* section only; a rigctld section holding some keys, with an audio section;
\* every key.
FileRigOnly ==
    [EmptyConfig EXCEPT !.rigctld = [has |-> TRUE,
        opt |-> [EmptyDict(RigOpts) EXCEPT !["model"] = "1", !["device"] = "/dev/ttyUSB1",
                   !["baud"] = "4800", !["ptt_type"] = "RIG", !["dcd_type"] = "CD"]]]

FilePartial ==
    [EmptyConfig EXCEPT !.rigctld = [has |-> TRUE,
                                      opt |-> [EmptyDict(RigOpts) EXCEPT !["model"] = "1"]],
                        !.audio = [has |-> TRUE,
                                    opt |-> [card |-> "1", hw |-> "1,0"]]]

FileFull ==
    [FileRigOnly EXCEPT !.audio = [has |-> TRUE, opt |-> [card |-> "2", hw |-> "2,0"]],
                        !.gps = [has |-> TRUE,
                                  opt |-> [device |-> "/dev/ttyACM0", grid |-> Absent]]]

ConfigFiles == {EmptyConfig, FileRigOnly, FilePartial, FileFull}

RigProbes == {<<>>, << <<"1", "Hamlib", "Dummy">>, <<"3073", "Icom", "IC-7300">> >>}

AudioProbes == {<<>>, << <<"1", "1,0">>, <<"2", "2,0">> >>}

UsbListings == {<<>>, <<"ttyUSB0">>, <<"ttyUSB1", "ttyUSB0">>}

\* RadioGUI after __init__ (refresh_usb and refresh_audio have run).
InitPatGui ==
    /\ app = "pat_gui"
    /\ \E d \in UsbListings : usb_var = IF d # <<>> THEN d[1] ELSE ""
    /\ \E a \in AudioProbes :
         audio_var = IF a # <<>> THEN AudioItem(a[1][1], a[1][2]) ELSE NoText
    /\ file = EmptyConfig /\ cfg_m = EmptyConfig /\ cfg_c = EmptyConfig
    /\ rig_live = FALSE /\ audio_live = FALSE
    /\ rigsAvail = <<>> /\ audAvail = <<>>

\* radio_gui.py, or main.py hosting pat_tab.py and config_tab.py: each module
\* reads the file into its own parser at import.
InitToggleApp ==
    /\ app \in {"radio_gui", "main"}
    /\ usb_var = "" /\ audio_var = NoText
    /\ file \in ConfigFiles
    /\ cfg_m = file
    /\ rig_live = file.rigctld.has
    /\ audio_live = file.audio.has
    /\ cfg_c = IF app = "main" THEN file ELSE EmptyConfig
    /\ rigsAvail \in RigProbes
    /\ audAvail \in AudioProbes

InitSup ==
    /\ InitPatGui \/ InitToggleApp
    /\ processes = <<>>
    /\ services_running = FALSE
    /\ effects = <<>>
    /\ lastOp = "init"
    /\ savedOnce = FALSE
    /\ startedAfterSave = FALSE
    /\ b_rig = EmptyDict(RigOpts) /\ b_audio = EmptyDict(AudioOpts) /\ b_cmds = <<>>
    /\ gw = <<>> /\ mw = <<>> /\ lastChunk = <<>> /\ gps_exc = "none" /\ alive = TRUE
    /\ observed = {} /\ gridWrite = FALSE
    /\ ExtraIdle

NextSup ==
    \/ \E d \in UsbListings : refresh_usb(d)
    \/ \E a \in AudioProbes : refresh_audio(a)
    \/ \E failAt \in 0..3 : start_services(failAt)
    \/ stop_services
    \/ \E upSet \in SUBSET NameSet : toggle_services(upSet)
    \/ \E form \in Forms(rigsAvail, audAvail) : RadioSaveConfig(form)
    \/ \E form \in Forms(rigsAvail, audAvail) : ConfigTabSaveConfig(form)

SpecSup == InitSup /\ [][NextSup]_vars

----------------------------------------------------------------------------
(* Properties of the supervisor *)

Range(seq) == {seq[i] : i \in 1..Len(seq)}

\* The process names the killall runs of a handler were given.
SweptNames(effs) == UNION {Range(effs[i].argv) : i \in {j \in 1..Len(effs) : effs[j].op = "killall"}}

\* The calls of a handler that launched a child process.
Spawns(effs) == {i \in 1..Len(effs) : effs[i].op \in {"spawn", "start"}}

IsStart(op) == op \in {"start_services", "toggle_start"}

IsStop(op) == op \in {"stop_services", "toggle_stop"}

\* C1: a start issued while the three services are running spawns no child
\* process and leaves the three tracked handles as they are.
C1_StartWhileRunningIsNoOp ==
    [][(IsStart(lastOp') /\ Len(processes) = 3)
         => (processes' = processes /\ Spawns(effects') = {})]_vars

\* C2: every stop performs the kill-by-name sweep for rigctld, ardopcf and pat
\* and leaves no tracked handle, whether or not any handle was tracked; a
\* stop repeated on the state a stop left leaves that state again, and sweeps.
C2_StopSweepsAndIsIdempotent ==
    /\ [][IsStop(lastOp')
            => /\ SweptNames(effects') = NameSet
               /\ processes' = <<>>
               /\ (app # "pat_gui" => ~services_running')]_vars
    /\ [](app = "pat_gui"
            => LET first == StopServicesResult(processes)
                   second == StopServicesResult(first.processes)
               IN /\ second.processes = first.processes
                  /\ first.processes = <<>>
                  /\ SweptNames(first.effects) = NameSet
                  /\ SweptNames(second.effects) = NameSet)

\* A stop_services that ran with no handle tracked, and swept.
C2_Witness ==
    /\ lastOp = "stop_services"
    /\ processes = <<>>
    /\ \A i \in 1..Len(effects) : effects[i].op # "terminate"
    /\ SweptNames(effects) = NameSet

\* C3: the tracked handles are none, or exactly one for each of rigctld,
\* ardopcf and pat.
C3_SharedLifecycle ==
    \/ processes = <<>>
    \/ /\ Len(processes) = 3
       /\ \A i \in 1..3 : processes[i].name = ServiceNames[i]

\* C4: a stop first sends the graceful terminate to every retained handle, in
\* order, then issues the kill-by-name sweep for the three names, then clears
\* the handles.
C4_StopOrder ==
    [][IsStop(lastOp')
         => LET n == Len(processes)
                m == Len(effects')
            IN /\ m >= n + 2
               /\ \A i \in 1..n : /\ effects'[i].op = "terminate"
                                  /\ effects'[i].name = processes[i].name
               /\ \A i \in (n + 1)..(m - 1) : effects'[i].op = "killall"
               /\ SweptNames(effects') = NameSet
               /\ effects'[m].op = "clear"
               /\ processes' = <<>>]_vars

\* The argument vectors build_service_commands yields from the file's content.
CommandsFromFile == BuildCommands(file.rigctld.opt, file.audio.opt)

\* C5: services started after a completed save run with the argument vectors
\* of the saved configuration.
C5_StartUsesSavedConfig ==
    (services_running /\ savedOnce /\ startedAfterSave)
        => \A i \in 1..Len(processes) : processes[i].argv = CommandsFromFile[i]

\* The programs with the toggle-based supervisor.
ToggleApp == app \in {"radio_gui", "main"}

\* The running flag and the handle list agree: Running with three handles,
\* Stopped with none.
FlagMatchesHandles ==
    /\ services_running <=> Len(processes) = 3
    /\ ~services_running <=> processes = <<>>

\* C23: in the toggle-based supervisor, after any number of toggle_services
\* calls services_running is True exactly when the processes list holds three
\* handles and False exactly when it is empty, and the state alternates
\* Stopped, Running, Stopped, ... starting from Stopped: a session starts
\* Stopped, every toggle_services call flips the flag, and no other handler
\* changes it.
C23_FlagMatchesHandles ==
    /\ ToggleApp => ~services_running /\ FlagMatchesHandles
    /\ [][ToggleApp =>
             /\ FlagMatchesHandles'
             /\ IF lastOp' \in {"toggle_start", "toggle_stop"}
                THEN services_running' = ~services_running
                ELSE services_running' = services_running]_vars

\* Stopped again: a Running state has been left by a second toggle_services.
C23_Witness ==
    ToggleApp /\ lastOp = "toggle_stop" /\ ~services_running /\ processes = <<>>

----------------------------------------------------------------------------
(* build_service_commands as a function of the two mappings *)

BuildKeys == {"model", "device", "baud", "ptt_type", "dcd_type"}

\* A value a configuration file may give each key, distinct from its default.
ConfiguredValue ==
    [model |-> "3073", device |-> "/dev/ttyACM0", baud |-> "19200", ptt_type |-> "DTR",
     dcd_type |-> "CD", hw |-> "1,0"]

\* The mappings over every subset of the keys, a present key holding its
\* configured value or the empty string.
BuildMappings(opts, keys) ==
    {[o \in opts |-> IF o \in present
                     THEN (IF o \in empties THEN "" ELSE ConfiguredValue[o])
                     ELSE Absent] :
        present \in SUBSET keys, empties \in SUBSET keys}

\* The supervisor at rest, whatever program hosts the session.
SupIdle ==
    /\ usb_var = "" /\ audio_var = NoText
    /\ processes = <<>> /\ services_running = FALSE
    /\ effects = <<>> /\ lastOp = "init"
    /\ file = EmptyConfig /\ cfg_m = EmptyConfig /\ cfg_c = EmptyConfig
    /\ rig_live = FALSE /\ audio_live = FALSE
    /\ rigsAvail = <<>> /\ audAvail = <<>>
    /\ savedOnce = FALSE /\ startedAfterSave = FALSE

\* No session: the supervisor's state in the specifications of pure functions.
NoSession == app = "none" /\ SupIdle

InitBuild ==
    /\ NoSession
    /\ b_rig \in BuildMappings(RigOpts, BuildKeys)
    /\ b_audio \in BuildMappings(AudioOpts, {"hw"})
    /\ b_cmds = <<>>
    /\ gw = <<>> /\ mw = <<>> /\ lastChunk = <<>> /\ gps_exc = "none" /\ alive = TRUE
    /\ observed = {} /\ gridWrite = FALSE
    /\ ExtraIdle

ApplyBuild ==
    /\ b_cmds = <<>>
    /\ b_cmds' = BuildCommands(b_rig, b_audio)
    /\ UNCHANGED <<b_rig, b_audio, supVars, gpsVars, extraVars, logVars>>

NextBuild == ApplyBuild

SpecBuild == InitBuild /\ [][NextBuild]_vars

\* The defaults the specification documents.
DocumentedDefault ==
    [model |-> "2050", device |-> "/dev/ttyUSB0", baud |-> "9600", ptt_type |-> "RTS",
     dcd_type |-> "RIG", hw |-> "0,0"]

\* Where each rigctld key lands in the rigctld argument vector.
RigArgPos == [model |-> 3, device |-> 5, baud |-> 7, ptt_type |-> 9, dcd_type |-> 11]

\* The value the claim requires for key k of mapping m.
Required(m, k) == IF m[k] # Absent THEN m[k] ELSE DocumentedDefault[k]

\* C6: build_service_commands returns three vectors in the order rigctld,
\* ardopcf, pat; every substituted argument is the configured value of its
\* key when the key is present and the documented default otherwise; an empty
\* configuration gives the vectors of the defaults alone.
C6_BuildCommands ==
    b_cmds # <<>> =>
        /\ Len(b_cmds) = 3
        /\ Len(b_cmds[1]) = 11 /\ Len(b_cmds[2]) = 8 /\ Len(b_cmds[3]) = 3
        /\ b_cmds[1][1] = "rigctld" /\ b_cmds[2][1] = "./ardopcf" /\ b_cmds[3][1] = "pat"
        /\ <<b_cmds[1][2], b_cmds[1][4], b_cmds[1][6], b_cmds[1][8], b_cmds[1][10]>>
             = <<"-m", "-r", "-s", "-P", "-D">>
        /\ \A k \in BuildKeys : b_cmds[1][RigArgPos[k]] = Required(b_rig, k)
        /\ <<b_cmds[2][2], b_cmds[2][3], b_cmds[2][4], b_cmds[2][6]>>
             = <<"--logdir", ArdopLogDir, "-p", "8515">>
        /\ b_cmds[2][5] = Required(b_rig, "device")
        /\ b_cmds[2][7] = "plughw:" \o Required(b_audio, "hw")
        /\ b_cmds[2][8] = "plughw:" \o Required(b_audio, "hw")
        /\ b_cmds[3] = <<"pat", "--listen=ardop,telnet", "http">>
        /\ (b_rig = EmptyDict(RigOpts) /\ b_audio = EmptyDict(AudioOpts))
             => b_cmds = << <<"rigctld", "-m", "2050", "-r", "/dev/ttyUSB0", "-s", "9600",
                              "-P", "RTS", "-D", "RIG">>,
                            <<"./ardopcf", "--logdir", ArdopLogDir, "-p", "/dev/ttyUSB0",
                              "8515", "plughw:0,0", "plughw:0,0">>,
                            <<"pat", "--listen=ardop,telnet", "http">> >>

\* The commands built from a configuration holding some of the keys, one of
\* them with an empty value.
C6_Witness ==
    /\ b_cmds # <<>>
    /\ b_rig["model"] = "3073" /\ b_rig["device"] = "" /\ b_rig["baud"] = Absent
    /\ b_audio["hw"] = Absent

----------------------------------------------------------------------------
(* Text: a Python str is the sequence of its characters *)

NL == "\n"

CR == "\r"

\* The degree sign of the coordinate labels, one character.
DegreeSign == "deg"

Digits == <<"0", "1", "2", "3", "4", "5", "6", "7", "8", "9">>

IsDigit(c) == \E i \in 1..10 : Digits[i] = c

DigitVal(c) == (CHOOSE i \in 1..10 : Digits[i] = c) - 1

Min(a, b) == IF a < b THEN a ELSE b

\* s[a:b] for 0 <= a <= b, clamped to the length as Python clamps it.
Slice(s, a, b) == SubSeq(s, a + 1, Min(b, Len(s)))

\* s[a:]
SliceFrom(s, a) == SubSeq(s, a + 1, Len(s))

StartsWith_AnyTalker(s, prefix) ==
    /\ Len(s) >= Len(prefix)
    /\ s[1] = prefix[1]
    /\ SubSeq(s, 4, Len(prefix)) = SubSeq(prefix, 4, Len(prefix))

\* s.startswith(prefix)
StartsWith(s, prefix) == Len(s) >= Len(prefix) /\ SubSeq(s, 1, Len(prefix)) = prefix

\* The index of the first occurrence of character c in s at or after i, or
\* Len(s) + 1.
Find(s, c, i) ==
    LET hits == {j \in i..Len(s) : s[j] = c}
    IN IF hits = {} THEN Len(s) + 1 ELSE CHOOSE j \in hits : \A m \in hits : j <= m

\* s.split(c): the fields between the separators; at least one field.
RECURSIVE Split(_, _)
Split(s, c) ==
    LET k == Find(s, c, 1)
    IN IF k > Len(s) THEN <<s>>
       ELSE <<SubSeq(s, 1, k - 1)>> \o Split(SubSeq(s, k + 1, Len(s)), c)

\* The characters str.splitlines() ends a line at besides "\n" and "\r":
\* \v, \f, \x1c, \x1d, \x1e, \x85, \u2028, \u2029.
FF == "\f"

OtherLineEnds == {"\\v", FF, "\\x1c", "\\x1d", "\\x1e", "\\x85", "\\u2028", "\\u2029"}

LineEnds == {NL, CR} \cup OtherLineEnds

\* The index of the first line end in s, or Len(s) + 1.
FindLineEnd(s) ==
    LET hits == {j \in 1..Len(s) : s[j] \in LineEnds}
    IN IF hits = {} THEN Len(s) + 1 ELSE CHOOSE j \in hits : \A m \in hits : j <= m

\* s.splitlines(): "\r\n" ends a line as one boundary; no empty last line.
RECURSIVE SplitLines(_)
SplitLines(s) ==
    IF s = <<>> THEN <<>>
    ELSE LET k == FindLineEnd(s)
             next == IF k < Len(s) /\ s[k] = CR /\ s[k + 1] = NL THEN k + 2 ELSE k + 1
         IN IF k > Len(s) THEN <<s>>
            ELSE <<SubSeq(s, 1, k - 1)>> \o SplitLines(SubSeq(s, next, Len(s)))

IsSpace(c) == c \in {" ", "\t"} \cup LineEnds

\* s.rstrip()
RECURSIVE RStrip(_)
RStrip(s) ==
    IF s # <<>> /\ IsSpace(s[Len(s)]) THEN RStrip(SubSeq(s, 1, Len(s) - 1)) ELSE s

\* str(n) for 0 <= n <= 9
DigitChar(n) == Digits[n + 1]

----------------------------------------------------------------------------
(* Numbers: a float is the exact rational n / d it is written as *)

Rat(n, d) == [n |-> n, d |-> d]

\* None, for lat_dd / lon_dd before any fix of the chunk.
NoCoord == Rat(0, 0)

RECURSIVE Pow10(_)
Pow10(k) == IF k = 0 THEN 1 ELSE 10 * Pow10(k - 1)

RECURSIVE DigitsValue(_)
DigitsValue(s) ==
    IF s = <<>> THEN 0 ELSE 10 * DigitsValue(SubSeq(s, 1, Len(s) - 1)) + DigitVal(s[Len(s)])

\* The texts float() is modelled on: digits with at most one point and at
\* least one digit. float() raises ValueError on every other text the
\* sentences here hold (empty, letters).
IsFloatText(s) ==
    /\ \A i \in 1..Len(s) : IsDigit(s[i]) \/ s[i] = "."
    /\ Cardinality({i \in 1..Len(s) : s[i] = "."}) <= 1
    /\ \E i \in 1..Len(s) : IsDigit(s[i])

\* float(s) of such a text.
FloatOf(s) ==
    LET p == Find(s, ".", 1)
        whole == SubSeq(s, 1, p - 1)
        frac == SubSeq(s, p + 1, Len(s))
    IN Rat(DigitsValue(whole) * Pow10(Len(frac)) + DigitsValue(frac), Pow10(Len(frac)))

\* (float(deg) + float(min) / 60) * sign
DecimalDegrees(deg, min, sign) ==
    Rat(sign * (deg.n * 60 * min.d + min.n * deg.d), 60 * deg.d * min.d)

\* int(x // k) for a rational x and an integer k > 0
FloorDivInt(x, k) == x.n \div (k * x.d)

----------------------------------------------------------------------------
(* latlon_to_grid *)

UpperCase ==
    <<"A", "B", "C", "D", "E", "F", "G", "H", "I", "J", "K", "L", "M", "N", "O", "P", "Q",
      "R", "S", "T", "U", "V", "W", "X", "Y", "Z">>

LowerCase ==
    <<"a", "b", "c", "d", "e", "f", "g", "h", "i", "j", "k", "l", "m", "n", "o", "p", "q",
      "r", "s", "t", "u", "v", "w", "x", "y", "z">>

\* chr(n); a character that is not a letter is named by its code.
Chr(n) ==
    IF n >= 65 /\ n <= 90 THEN UpperCase[n - 64]
    ELSE IF n >= 97 /\ n <= 122 THEN LowerCase[n - 96]
    ELSE "chr" \o ToString(n)

LowerChr_KeepCase(n) == Chr(n)

\* chr(n).lower()
LowerChr(n) == IF n >= 65 /\ n <= 90 THEN Chr(n + 32) ELSE Chr(n)

latlon_to_grid(lat0, lon0) ==
    LET lon == Rat(lon0.n + 180 * lon0.d, lon0.d)
        lat == Rat(lat0.n + 90 * lat0.d, lat0.d)
        A == 65
        lon_field == FloorDivInt(lon, 20)
        lat_field == FloorDivInt(lat, 10)
        lon_square == (lon.n % (20 * lon.d)) \div (2 * lon.d)
        lat_square == (lat.n % (10 * lat.d)) \div lat.d
        lon_rem == Rat(lon.n - lon_field * 20 * lon.d - lon_square * 2 * lon.d, lon.d)
        lat_rem == Rat(lat.n - lat_field * 10 * lat.d - lat_square * lat.d, lat.d)
        lon_sub == (lon_rem.n * 12) \div lon_rem.d
        lat_sub == (lat_rem.n * 24) \div lat_rem.d
    IN <<Chr(A + lon_field), Chr(A + lat_field),
         DigitChar(lon_square), DigitChar(lat_square),
         LowerChr(A + lon_sub), LowerChr(A + lat_sub)>>

----------------------------------------------------------------------------
(* The GPS decoders: parse_gps of gps_tab.py and of radio_gui.py *)

\* None, for a field no text has been assigned to.
NoneVal == <<"None">>

\* The text '--' the labels are created with.
Unknown == <<"-", "-">>

\* The text system_time() writes: the clock of the moment.
ClockText == <<"clock">>

GPRMC == <<"$", "G", "P", "R", "M", "C">>

GPGGA == <<"$", "G", "P", "G", "G", "A">>

\* len(parts) > 9 and parts[2] == 'A'
RmcAccepted_AnyStatus(parts) == Len(parts) > 9

RmcAccepted(parts) == Len(parts) > 9 /\ parts[3] = <<"A">>

\* len(parts) > 9 and parts[6] != '0'
GgaAccepted(parts) == Len(parts) > 9 /\ parts[7] # <<"0">>

\* f"{t[:2]}:{t[2:4]}:{t[4:6]}"
TimeLabel(t) == Slice(t, 0, 2) \o <<":">> \o Slice(t, 2, 4) \o <<":">> \o Slice(t, 4, 6)

\* f"{d[0:2]}/{d[2:4]}/20{d[4:6]}" (gps_tab.py)
GwDateLabel(d) ==
    Slice(d, 0, 2) \o <<"/">> \o Slice(d, 2, 4) \o <<"/", "2", "0">> \o Slice(d, 4, 6)

\* f"{d[2:4]}/{d[4:6]}/{d[:2]}" (radio_gui.py)
MwDateLabel(d) ==
    Slice(d, 2, 4) \o <<"/">> \o Slice(d, 4, 6) \o <<"/">> \o Slice(d, 0, 2)

\* float(val[:n]) and float(val[n:]) both succeed.
CoordOk(val, n) == IsFloatText(Slice(val, 0, n)) /\ IsFloatText(SliceFrom(val, Min(n, Len(val))))

Coord_Unsigned(val, n, hemi, positive) ==
    DecimalDegrees(FloatOf(Slice(val, 0, n)), FloatOf(SliceFrom(val, Min(n, Len(val)))), 1)

\* (float(val[:n]) + float(val[n:]) / 60) * (1 if hemi == positive else -1)
Coord(val, n, hemi, positive) ==
    DecimalDegrees(FloatOf(Slice(val, 0, n)), FloatOf(SliceFrom(val, Min(n, Len(val)))),
                   IF hemi = positive THEN 1 ELSE -1)

\* GPSWindow._format_coord
GwFormatCoord(val, hemi) ==
    LET deg_len == IF hemi \in {<<"N">>, <<"S">>} THEN 2 ELSE 3
    IN Slice(val, 0, deg_len) \o <<DegreeSign, " ">>
       \o SliceFrom(val, Min(deg_len, Len(val))) \o <<" ", "'">> \o hemi

\* fmt of MainWindow.parse_gps
MwFormatCoord(v, h) ==
    LET deg_len == IF Len(Split(v, ".")[1]) <= 4 THEN 2 ELSE 3
    IN Slice(v, 0, deg_len) \o <<DegreeSign, " ">>
       \o SliceFrom(v, Min(deg_len, Len(v))) \o <<" ", "'">> \o h \o <<"'">>

\* GPSWindow after __init__.
InitGw ==
    [lblTime |-> Unknown, lblDate |-> Unknown, lblLat |-> Unknown, lblLon |-> Unknown,
     lblAlt |-> Unknown, lblGrid |-> Unknown, current_grid |-> NoneVal,
     rawAppended |-> <<>>]

\* One pass of the for loop of GPSWindow.parse_gps over a line; acc holds the
\* window, lat_dd, lon_dd and the exception raised, if any.
GwLine(acc, line) ==
    IF StartsWith(line, GPRMC)
    THEN LET parts == Split(line, ",")
         IN IF RmcAccepted(parts)
            THEN [acc EXCEPT !.st.lblTime = TimeLabel(parts[2]),
                             !.st.lblDate = GwDateLabel(parts[10])]
            ELSE acc
    ELSE IF StartsWith(line, GPGGA)
    THEN LET parts == Split(line, ",")
         IN IF GgaAccepted(parts)
            THEN IF ~CoordOk(parts[3], 2)
                 THEN [acc EXCEPT !.exc = "ValueError"]
                 ELSE IF ~CoordOk(parts[5], 3)
                 THEN [acc EXCEPT !.lat_dd = Coord(parts[3], 2, parts[4], <<"N">>),
                                  !.exc = "ValueError"]
                 ELSE [acc EXCEPT !.lat_dd = Coord(parts[3], 2, parts[4], <<"N">>),
                                  !.lon_dd = Coord(parts[5], 3, parts[6], <<"E">>),
                                  !.st.lblLat = GwFormatCoord(parts[3], parts[4]),
                                  !.st.lblLon = GwFormatCoord(parts[5], parts[6]),
                                  !.st.lblAlt = parts[10] \o <<" ", "m">>]
            ELSE acc
    ELSE acc

\* The for loop from line i on; an exception ends it.
RECURSIVE GwLoop(_, _, _)
GwLoop(acc, lines, i) ==
    IF i > Len(lines) \/ acc.exc # "none" THEN acc
    ELSE GwLoop(GwLine(acc, lines[i]), lines, i + 1)

\* GPSWindow.parse_gps on the text raw: the window it leaves, the exception
\* that left it, if any, and whether lblGrid.setText was called.
GwParse(st, raw) ==
    LET acc == GwLoop([st |-> [st EXCEPT !.rawAppended = RStrip(raw)],
                       lat_dd |-> NoCoord, lon_dd |-> NoCoord, exc |-> "none"],
                      SplitLines(raw), 1)
    IN IF acc.exc = "none" /\ acc.lat_dd # NoCoord /\ acc.lon_dd # NoCoord
       THEN LET grid == latlon_to_grid(acc.lat_dd, acc.lon_dd)
            IN [st |-> IF grid # acc.st.current_grid
                       THEN [acc.st EXCEPT !.current_grid = grid, !.lblGrid = grid]
                       ELSE acc.st,
                exc |-> "none",
                gridWrite |-> grid # acc.st.current_grid]
       ELSE [st |-> acc.st, exc |-> acc.exc, gridWrite |-> FALSE]

\* MainWindow of radio_gui.py after __init__ (system_time() has run).
InitMw ==
    [rmc_time |-> NoneVal, rmc_date |-> NoneVal, gps_override |-> FALSE,
     lblTime |-> ClockText, lblDate |-> ClockText,
     gps_time |-> Unknown, gps_date |-> Unknown, gps_lat |-> Unknown,
     gps_lon |-> Unknown, gps_sats |-> Unknown, gps_alt |-> Unknown,
     gps_grid |-> Unknown, rawAppended |-> <<>>]

\* A str (or None) that counts as true.
Truthy(x) == x # NoneVal /\ x # <<>>

\* The body of the for loop of MainWindow.parse_gps on a line.
MwLine(st, line) ==
    IF StartsWith(line, GPRMC)
    THEN LET parts == Split(line, ",")
         IN [st |-> IF RmcAccepted(parts)
                    THEN [st EXCEPT !.rmc_time = parts[2], !.rmc_date = parts[10]]
                    ELSE st,
             exc |-> "none", gridWrite |-> FALSE]
    ELSE IF StartsWith(line, GPGGA) /\ Truthy(st.rmc_time)
    THEN LET p2 == Split(line, ",")
         IN IF GgaAccepted(p2)
            THEN LET shown == [st EXCEPT !.gps_time = TimeLabel(st.rmc_time),
                                         !.lblTime = TimeLabel(st.rmc_time),
                                         !.gps_date = MwDateLabel(st.rmc_date),
                                         !.lblDate = MwDateLabel(st.rmc_date),
                                         !.gps_lat = MwFormatCoord(p2[3], p2[4]),
                                         !.gps_lon = MwFormatCoord(p2[5], p2[6]),
                                         !.gps_sats = p2[8],
                                         !.gps_alt = p2[10] \o <<" ", "m">>]
                 IN IF CoordOk(p2[3], 2) /\ CoordOk(p2[5], 3)
                    THEN [st |-> [shown EXCEPT
                                    !.gps_grid = latlon_to_grid(
                                                    Coord(p2[3], 2, p2[4], <<"N">>),
                                                    Coord(p2[5], 3, p2[6], <<"E">>)),
                                    !.gps_override = TRUE],
                          exc |-> "none", gridWrite |-> TRUE]
                    ELSE [st |-> shown, exc |-> "ValueError", gridWrite |-> FALSE]
            ELSE [st |-> st, exc |-> "none", gridWrite |-> FALSE]
    ELSE [st |-> st, exc |-> "none", gridWrite |-> FALSE]

\* MainWindow.parse_gps on the text raw: the loop body ends in break, so it
\* runs on lines[0] alone.
MwParse(st, raw) ==
    LET lines == Split(raw, NL)
    IN MwLine([st EXCEPT !.rawAppended = RStrip(raw)], lines[1])

----------------------------------------------------------------------------
(* NMEA sentences a receiver may send *)

\* An active recommended-minimum sentence
RmcA1 ==
    <<"$", "G", "P", "R", "M", "C", ",", "1", "2", "3", "5", "1", "9", ",", "A", ",",
      "4", "8", "0", "7", ".", "0", "3", "8", ",", "N", ",", "0", "1", "1", "3", "1",
      ".", "0", "0", "0", ",", "E", ",", "0", "2", "2", ".", "4", ",", "0", "8", "4",
      ".", "4", ",", "2", "3", "0", "3", "9", "4", ",", "0", "0", "3", ".", "1", ",",
      "W", "*", "6", "A">>

\* Another, of a later fix
RmcA2 ==
    <<"$", "G", "P", "R", "M", "C", ",", "0", "8", "1", "8", "3", "6", ",", "A", ",",
      "3", "7", "5", "1", ".", "6", "5", ",", "S", ",", "1", "4", "5", "0", "7", ".",
      "3", "6", ",", "E", ",", "0", "0", "0", ".", "0", ",", "3", "6", "0", ".", "0",
      ",", "1", "3", "0", "9", "9", "8", ",", "0", "1", "1", ".", "3", ",", "E", "*",
      "6", "2">>

\* Status V: no satellite lock
RmcV ==
    <<"$", "G", "P", "R", "M", "C", ",", "1", "2", "3", "5", "2", "0", ",", "V", ",",
      "4", "8", "0", "7", ".", "0", "3", "8", ",", "N", ",", "0", "1", "1", "3", "1",
      ".", "0", "0", "0", ",", "E", ",", "0", "2", "2", ".", "4", ",", "0", "8", "4",
      ".", "4", ",", "2", "4", "0", "3", "9", "4", ",", "0", "0", "3", ".", "1", ",",
      "W", "*", "6", "B">>

\* An empty status field
RmcNoStatus ==
    <<"$", "G", "P", "R", "M", "C", ",", "1", "2", "3", "5", "2", "2", ",", ",", ",",
      ",", ",", ",", ",", ",", "2", "5", "0", "3", "9", "4", ",", ",", "*", "0", "0">>

\* Status A with empty time and date fields
RmcEmptyTime ==
    <<"$", "G", "P", "R", "M", "C", ",", ",", "A", ",", ",", ",", ",", ",", ",", ",",
      ",", ",", "*", "0", "0">>

\* Fewer than ten fields
RmcShort ==
    <<"$", "G", "P", "R", "M", "C", ",", "1", "2", "3", "5", "2", "1", ",", "A", ",",
      "4", "8", "0", "7", ".", "0", "3", "8", ",", "N">>

\* A fix, north-east
GgaFix1 ==
    <<"$", "G", "P", "G", "G", "A", ",", "1", "2", "3", "5", "1", "9", ",", "4", "8",
      "0", "7", ".", "0", "3", "8", ",", "N", ",", "0", "1", "1", "3", "1", ".", "0",
      "0", "0", ",", "E", ",", "1", ",", "0", "8", ",", "0", ".", "9", ",", "5", "4",
      "5", ".", "4", ",", "M", ",", "4", "6", ".", "9", ",", "M", ",", ",", "*", "4",
      "7">>

\* A fix, south-east
GgaFix2 ==
    <<"$", "G", "P", "G", "G", "A", ",", "0", "8", "1", "8", "3", "6", ",", "3", "7",
      "5", "1", ".", "6", "5", ",", "S", ",", "1", "4", "5", "0", "7", ".", "3", "6",
      ",", "E", ",", "1", ",", "0", "5", ",", "1", ".", "5", ",", "2", "8", "0", ".",
      "2", ",", "M", ",", "-", "3", "4", ".", "0", ",", "M", ",", ",", "*", "7", "5">>

\* A fix at 40 N 105 W
GgaWest ==
    <<"$", "G", "P", "G", "G", "A", ",", "1", "7", "0", "8", "3", "4", ",", "4", "0",
      "0", "0", ".", "0", "0", "0", ",", "N", ",", "1", "0", "5", "0", "0", ".", "0",
      "0", "0", ",", "W", ",", "1", ",", "0", "5", ",", "1", ".", "5", ",", "1", "6",
      "0", "9", ".", "3", ",", "M", ",", "-", "2", "1", ".", "3", ",", "M", ",", ",",
      "*", "7", "4">>

\* Fix quality 0
GgaNoFix ==
    <<"$", "G", "P", "G", "G", "A", ",", "1", "2", "3", "5", "1", "9", ",", ",", ",",
      ",", ",", "0", ",", "0", "0", ",", "9", "9", ".", "9", "9", ",", ",", ",", ",",
      ",", ",", "*", "4", "8">>

\* Empty fix quality and empty coordinates
GgaEmptyQuality ==
    <<"$", "G", "P", "G", "G", "A", ",", "1", "2", "3", "5", "1", "9", ",", ",", ",",
      ",", ",", ",", "0", "0", ",", "9", "9", ".", "9", "9", ",", ",", ",", ",", ",",
      ",", "*", "6", "6">>

\* A longitude that is no number
GgaBadLon ==
    <<"$", "G", "P", "G", "G", "A", ",", "1", "2", "3", "5", "1", "9", ",", "4", "8",
      "0", "7", ".", "0", "3", "8", ",", "N", ",", "0", "1", "1", "3", "x", ".", "0",
      "0", "0", ",", "E", ",", "1", ",", "0", "8", ",", "0", ".", "9", ",", "5", "4",
      "5", ".", "4", ",", "M", ",", "4", "6", ".", "9", ",", "M", ",", ",", "*", "4",
      "7">>

\* Fewer than ten fields
GgaShort ==
    <<"$", "G", "P", "G", "G", "A", ",", "1", "2", "3", "5", "1", "9", ",", "4", "8",
      "0", "7", ".", "0", "3", "8", ",", "N">>

\* A sentence of another type
Gsv ==
    <<"$", "G", "P", "G", "S", "V", ",", "1", ",", "1", ",", "0", "1", ",", "0", "3",
      ",", "0", "3", ",", "1", "1", "1", ",", "0", "0", "*", "7", "4">>

\* An active recommended-minimum sentence of a multi-constellation receiver
GnRmc ==
    <<"$", "G", "N", "R", "M", "C", ",", "1", "4", "2", "2", "3", "3", ",", "A", ",",
      "5", "2", "3", "1", ".", "0", "0", "0", ",", "N", ",", "0", "1", "3", "2", "4",
      ".", "0", "0", "0", ",", "E", ",", "0", "0", "0", ".", "5", ",", "0", "5", "4",
      ".", "7", ",", "1", "9", "1", "1", "2", "4", ",", ",", ",", "A", "*", "6", "B">>

ValidSentences == {RmcA1, RmcA2, GgaFix1, GgaFix2, GgaWest}

InactiveRmc == {RmcV, RmcNoStatus}

Sentences ==
    ValidSentences \cup InactiveRmc
    \cup {RmcEmptyTime, RmcShort, GgaNoFix, GgaEmptyQuality, GgaBadLon, GgaShort, Gsv,
          GnRmc}

\* A sentence as the receiver sends it: terminated by a newline.
Line(sentence) == sentence \o <<NL>>

\* Where the chunks fed to the decoders break a sentence.
FeedSplits == {4, 15, 40}

\* The two chunks of a sentence read in two pieces, the break after character k.
HeadPiece(sentence, k) == SubSeq(sentence, 1, k)

TailPiece(sentence, k) == SubSeq(sentence, k + 1, Len(sentence)) \o <<NL>>

\* What one readAllStandardOutput() may return: nothing, one sentence, one
\* sentence ended by "\r\n", several sentences, two sentences with a form feed
\* between them, a piece of a sentence.
GpsChunks ==
    {<<>>}
    \cup {Line(x) : x \in Sentences}
    \cup {RmcA1 \o <<CR, NL>>, GgaFix1 \o <<CR, NL>>}
    \cup {Line(RmcA1) \o Line(GgaFix1), Line(GgaFix2) \o Line(RmcA2),
          Line(Gsv) \o Line(GgaWest), Line(RmcV) \o Line(RmcNoStatus),
          Line(GgaFix1) \o Line(GgaEmptyQuality), Line(RmcA2) \o Line(GgaFix2) \o Line(GgaWest)}
    \cup {HeadPiece(Gsv, 10) \o <<FF>> \o Line(RmcA2)}
    \cup {HeadPiece(x, k) : x \in {RmcA1, GgaFix1}, k \in FeedSplits}
    \cup {TailPiece(x, k) : x \in {RmcA1, GgaFix1}, k \in FeedSplits}

----------------------------------------------------------------------------
(* The GPS sessions *)

\* The kinds of valid sentence among the lines of a chunk: "rmc", a $GPRMC
\* the decoders accept (status "A"); "gga", a $GPGGA they accept (fix quality
\* not "0"); "fix", such a $GPGGA whose latitude and longitude are numbers.
Delivered(chunk) ==
    LET lines == SplitLines(chunk)
        parts(i) == Split(lines[i], ",")
    IN {k \in {"rmc"} : \E i \in 1..Len(lines) :
                            StartsWith(lines[i], GPRMC) /\ RmcAccepted(parts(i))}
       \cup {k \in {"gga"} : \E i \in 1..Len(lines) :
                            StartsWith(lines[i], GPGGA) /\ GgaAccepted(parts(i))}
       \cup {k \in {"fix"} : \E i \in 1..Len(lines) :
                            /\ StartsWith(lines[i], GPGGA) /\ GgaAccepted(parts(i))
                            /\ CoordOk(parts(i)[3], 2) /\ CoordOk(parts(i)[5], 3)}

\* An exception leaving a slot ends the session (PyQt5 from 5.5 on aborts) or
\* is printed and the event loop goes on (earlier versions, or an excepthook).
AliveAfter(exc) == IF exc = "none" THEN {TRUE} ELSE {TRUE, FALSE}

GPSWindow_parse_gps(chunk) ==
    /\ app \in {"gps_tab", "main"}
    /\ alive
    /\ \E r \in {GwParse(gw, chunk)} :
          /\ gw' = r.st
          /\ gps_exc' = r.exc
          /\ alive' \in AliveAfter(r.exc)
          /\ gridWrite' = r.gridWrite
    /\ observed' = observed \cup Delivered(chunk)
    /\ lastChunk' = chunk
    /\ lastOp' = "parse_gps"
    /\ UNCHANGED <<mw, buildVars, extraVars, logVars, app, usb_var, audio_var, processes, services_running,
                   effects, cfgVars>>

MainWindow_parse_gps(chunk) ==
    /\ app = "radio_gui"
    /\ alive
    /\ \E r \in {MwParse(mw, chunk)} :
          /\ mw' = r.st
          /\ gps_exc' = r.exc
          /\ alive' \in AliveAfter(r.exc)
          /\ gridWrite' = r.gridWrite
    /\ observed' = observed \cup Delivered(chunk)
    /\ lastChunk' = chunk
    /\ lastOp' = "parse_gps"
    /\ UNCHANGED <<gw, buildVars, extraVars, logVars, app, usb_var, audio_var, processes, services_running,
                   effects, cfgVars>>

\* MainWindow.system_time, the one-second timer: the header shows the clock
\* until a fix has set gps_override.
system_time ==
    /\ app = "radio_gui"
    /\ alive
    /\ mw' = IF ~mw.gps_override
             THEN [mw EXCEPT !.lblTime = ClockText, !.lblDate = ClockText]
             ELSE mw
    /\ gps_exc' = "none"
    /\ gridWrite' = FALSE
    /\ lastOp' = "system_time"
    /\ UNCHANGED <<gw, lastChunk, alive, observed, buildVars, extraVars, logVars, app, usb_var,
                   audio_var, processes, services_running, effects, cfgVars>>

InitGps ==
    /\ app \in {"gps_tab", "radio_gui"}
    /\ SupIdle
    /\ b_rig = EmptyDict(RigOpts) /\ b_audio = EmptyDict(AudioOpts) /\ b_cmds = <<>>
    /\ gw = InitGw
    /\ mw = InitMw
    /\ lastChunk = <<>>
    /\ gps_exc = "none"
    /\ alive = TRUE
    /\ observed = {}
    /\ gridWrite = FALSE
    /\ ExtraIdle

NextGps ==
    \/ \E chunk \in GpsChunks : GPSWindow_parse_gps(chunk)
    \/ \E chunk \in GpsChunks : MainWindow_parse_gps(chunk)
    \/ system_time

SpecGps == InitGps /\ [][NextGps]_vars

-----------------------------------------------------------------------------
(* Properties of the GPS decoders *)

\* What a decoder holds after a chunk: every field but the raw log.
DecoderFields(st) == [f \in DOMAIN st \ {"rawAppended"} |-> st[f]]

\* The decoder of the running application, and its parse_gps.
Decoder == IF app = "gps_tab" THEN gw ELSE mw

ParseGps(st, chunk) ==
    IF app = "gps_tab" THEN GwParse(st, chunk).st ELSE MwParse(st, chunk).st

\* C7: a valid sentence delivered as two consecutive chunks, the break inside
\* the line, leaves the decoder (time, date, position, altitude, grid) as the
\* same sentence delivered in one chunk does, from every reachable state.
C7_SplitInvisible ==
    \A s \in ValidSentences : \A k \in FeedSplits :
        DecoderFields(ParseGps(ParseGps(Decoder, HeadPiece(s, k)), TailPiece(s, k)))
            = DecoderFields(ParseGps(Decoder, Line(s)))

C9_ParseNeverRaises == gps_exc = "none"

\* Chunks that hold nothing but $GPRMC sentences whose status is not "A".
InactiveRmcChunks ==
    {Line(x) : x \in InactiveRmc} \cup {Line(RmcV) \o Line(RmcNoStatus)}

\* The time and date the decoders store and show.
TimeDate ==
    <<gw.lblTime, gw.lblDate, mw.rmc_time, mw.rmc_date, mw.gps_time, mw.gps_date,
      mw.lblTime, mw.lblDate>>

\* C10: a parse_gps call on $GPRMC sentences whose status field is not "A"
\* leaves the stored and the displayed time and date as they were before.
C10_InactiveRmcKeepsTimeDate ==
    [][(lastOp' = "parse_gps" /\ lastChunk' \in InactiveRmcChunks)
           => TimeDate' = TimeDate]_vars

\* An inactive $GPRMC arrived at a decoder that already held a time.
C10_Witness ==
    /\ lastOp = "parse_gps"
    /\ lastChunk \in InactiveRmcChunks
    /\ \/ app = "gps_tab" /\ gw.lblTime # Unknown /\ gw.lblDate # Unknown
       \/ app = "radio_gui" /\ mw.rmc_time # NoneVal /\ mw.gps_override

\* A grid locator has been surfaced by the decoder of the running application.
GridSurfaced ==
    \/ app = "gps_tab" /\ (gw.current_grid # NoneVal \/ gw.lblGrid # Unknown)
    \/ app = "radio_gui" /\ mw.gps_grid # Unknown

\* C11: a grid locator is surfaced only after both a $GPGGA with a fix and a
\* $GPRMC with status "A" have been delivered; a $GPGGA alone surfaces none.
C11_GridOnlyForValidFix == GridSurfaced => {"rmc", "gga"} \subseteq observed

\* The fields the decoder of the running application displays.
ShownTime == IF app = "gps_tab" THEN gw.lblTime ELSE mw.gps_time

ShownDate == IF app = "gps_tab" THEN gw.lblDate ELSE mw.gps_date

ShownLat == IF app = "gps_tab" THEN gw.lblLat ELSE mw.gps_lat

ShownLon == IF app = "gps_tab" THEN gw.lblLon ELSE mw.gps_lon

ShownAlt == IF app = "gps_tab" THEN gw.lblAlt ELSE mw.gps_alt

\* The display shows what the valid sentence s carries.
ShowsSentence(s) ==
    LET parts == Split(s, ",")
    IN IF StartsWith(s, GPRMC)
       THEN /\ ShownTime = TimeLabel(parts[2])
            /\ ShownDate = IF app = "gps_tab" THEN GwDateLabel(parts[10])
                           ELSE MwDateLabel(parts[10])
       ELSE /\ ShownLat = IF app = "gps_tab" THEN GwFormatCoord(parts[3], parts[4])
                          ELSE MwFormatCoord(parts[3], parts[4])
            /\ ShownLon = IF app = "gps_tab" THEN GwFormatCoord(parts[5], parts[6])
                          ELSE MwFormatCoord(parts[5], parts[6])
            /\ ShownAlt = parts[10] \o <<" ", "m">>
            /\ app = "radio_gui" => mw.gps_sats = parts[8]

\* C12: the two sentence types update independently: right after a valid
\* $GPRMC is processed the display shows its time and date, and right after a
\* valid $GPGGA is processed it shows its position, altitude and satellites,
\* whatever was seen before.
C12_IndependentUpdates ==
    \A s \in ValidSentences :
        (lastOp = "parse_gps" /\ lastChunk = Line(s)) => ShowsSentence(s)

\* The fields of the running decoder that start at an unknown value, and
\* those of them that hold a position.
FixFields ==
    IF app = "gps_tab"
    THEN <<gw.lblTime, gw.lblDate, gw.lblLat, gw.lblLon, gw.lblAlt, gw.lblGrid,
           gw.current_grid>>
    ELSE <<mw.rmc_time, mw.rmc_date, mw.gps_time, mw.gps_date, mw.gps_lat, mw.gps_lon,
           mw.gps_sats, mw.gps_alt, mw.gps_grid>>

PositionFields ==
    IF app = "gps_tab"
    THEN <<gw.lblLat, gw.lblLon, gw.lblAlt, gw.lblGrid, gw.current_grid>>
    ELSE <<mw.gps_lat, mw.gps_lon, mw.gps_alt, mw.gps_grid>>

IsUnknown(x) == x \in {Unknown, NoneVal}

\* No field that holds a value goes back to the unknown value.
FieldsSticky ==
    [][\A i \in 1..Len(FixFields) : ~IsUnknown(FixFields[i]) => ~IsUnknown(FixFields'[i])]_vars

\* A decoder that was never given a valid fix shows no position.
UnknownUntilFix ==
    [](("fix" \notin observed) => \A i \in 1..Len(PositionFields) : IsUnknown(PositionFields[i]))

\* C13: fix fields are sticky, no chunk resets a field that was set to "--" or
\* None; and a decoder that never received a valid $GPGGA keeps latitude,
\* longitude, altitude and grid at the unknown value.
C13_FixFieldsSticky == FieldsSticky /\ UnknownUntilFix

\* The locator the running decoder has surfaced.
SurfacedGrid == IF app = "gps_tab" THEN gw.current_grid ELSE mw.gps_grid

\* C14: parse_gps writes the grid output only when the locator it computed
\* differs from the one surfaced before; a valid $GPGGA that maps to the
\* current locator causes no write.
C14_GridWrittenOnlyOnChange ==
    [][(lastOp' = "parse_gps" /\ gridWrite') => SurfacedGrid' # SurfacedGrid]_vars

-----------------------------------------------------------------------------
(* The position of a fix on its own: the conversion of a $GPGGA's coordinate
   fields to signed decimal degrees, and latlon_to_grid of the result *)

\* Latitude (ddmm.mmm) and longitude (dddmm.mmm) fields of a $GPGGA.
LatTexts ==
    {<<"0", "0", "0", "0", ".", "0", "0", "0">>,
     <<"4", "0", "0", "0", ".", "0", "0", "0">>,
     <<"4", "8", "0", "7", ".", "0", "3", "8">>,
     <<"3", "7", "5", "1", ".", "6", "5">>,
     <<"8", "9", "5", "9", ".", "9", "9", "9">>,
     <<"9", "0", "0", "0", ".", "0", "0", "0">>,
     <<"0", "0", "3", "0", ".", "5">>}

LonTexts ==
    {<<"0", "0", "0", "0", "0", ".", "0", "0", "0">>,
     <<"1", "0", "5", "0", "0", ".", "0", "0", "0">>,
     <<"0", "1", "1", "3", "1", ".", "0", "0", "0">>,
     <<"1", "4", "5", "0", "7", ".", "3", "6">>,
     <<"1", "7", "9", "5", "9", ".", "9", "9", "9">>,
     <<"1", "8", "0", "0", "0", ".", "0", "0", "0">>,
     <<"0", "0", "9", "5", "9", ".", "5">>}

FixInputs ==
    {[lat_val |-> a, lat_h |-> h, lon_val |-> b, lon_h |-> g] :
        a \in LatTexts, h \in {<<"N">>, <<"S">>}, b \in LonTexts, g \in {<<"E">>, <<"W">>}}

\* lat_dd and lon_dd of an accepted $GPGGA (gps_tab.py:113-114).
DecodeFix ==
    /\ f_in # <<>> /\ f_dd = <<>>
    /\ f_dd' = <<Coord(f_in.lat_val, 2, f_in.lat_h, <<"N">>),
                 Coord(f_in.lon_val, 3, f_in.lon_h, <<"E">>)>>
    /\ UNCHANGED <<f_in, f_grid, probe, cfg_g, supVars, buildVars, gpsVars, logVars>>

\* grid = latlon_to_grid(lat_dd, lon_dd) (gps_tab.py:119).
LocateFix ==
    /\ f_dd # <<>> /\ f_grid = <<>>
    /\ f_grid' = latlon_to_grid(f_dd[1], f_dd[2])
    /\ UNCHANGED <<f_in, f_dd, probe, cfg_g, supVars, buildVars, gpsVars, logVars>>

InitFix ==
    /\ NoSession
    /\ b_rig = EmptyDict(RigOpts) /\ b_audio = EmptyDict(AudioOpts) /\ b_cmds = <<>>
    /\ gw = <<>> /\ mw = <<>> /\ lastChunk = <<>> /\ gps_exc = "none" /\ alive = TRUE
    /\ observed = {} /\ gridWrite = FALSE
    /\ f_in \in FixInputs /\ f_dd = <<>> /\ f_grid = <<>>
    /\ probe = <<>> /\ cfg_g = <<>> /\ LogIdle

NextFix == DecodeFix \/ LocateFix

SpecFix == InitFix /\ [][NextFix]_vars

-----------------------------------------------------------------------------
(* Properties of the position of a fix *)

\* floor of the rational x
Floor(x) == x.n \div x.d

\* x + k, x - k and x * k for a rational x and an integer k
RatPlus(x, k) == Rat(x.n + k * x.d, x.d)

RatMinus(x, k) == Rat(x.n - k * x.d, x.d)

RatTimes(x, k) == Rat(x.n * k, x.d)

\* x / k for an integer k > 0
RatOver(x, k) == Rat(x.n, x.d * k)

\* x mod k for an integer k > 0
RatMod(x, k) == RatMinus(x, k * Floor(RatOver(x, k)))

\* The Maidenhead locator of the formula: field, square and subsquare pairs.
Maidenhead(lat, lon) ==
    LET lonp == RatPlus(lon, 180)
        latp == RatPlus(lat, 90)
        lon_field == Floor(RatOver(lonp, 20))
        lat_field == Floor(RatOver(latp, 10))
        lon_square == Floor(RatOver(RatMod(lonp, 20), 2))
        lat_square == Floor(RatMod(latp, 10))
        lon_rem == RatMinus(RatMinus(lonp, 20 * lon_field), 2 * lon_square)
        lat_rem == RatMinus(RatMinus(latp, 10 * lat_field), lat_square)
    IN <<UpperCase[lon_field + 1], UpperCase[lat_field + 1],
         Digits[lon_square + 1], Digits[lat_square + 1],
         LowerCase[Floor(RatTimes(lon_rem, 12)) + 1],
         LowerCase[Floor(RatTimes(lat_rem, 24)) + 1]>>

\* The reference point: latitude 40.0, longitude -105.0.
ReferencePoint == <<Rat(2400000, 60000), Rat(-6300000, 60000)>>

\* C15: latlon_to_grid returns the six characters of the Maidenhead formula,
\* first pair upper case, last pair lower case; for latitude 40.0 and
\* longitude -105.0 it returns "DN70ma".
C15_GridFormula ==
    f_grid # <<>> =>
        /\ f_grid = Maidenhead(f_dd[1], f_dd[2])
        /\ f_dd = ReferencePoint => f_grid = <<"D", "N", "7", "0", "m", "a">>

\* The locator of the reference point has been computed.
C15_Witness == f_dd = ReferencePoint /\ f_grid = <<"D", "N", "7", "0", "m", "a">>

\* degrees + minutes / 60 of a coordinate field whose first n characters are
\* the degrees, as a rational.
DegreesMinutes(val, n) ==
    LET deg == FloatOf(SubSeq(val, 1, n))
        min == FloatOf(SubSeq(val, n + 1, Len(val)))
    IN Rat(deg.n * min.d * 60 + min.n * deg.d, deg.d * min.d * 60)

\* The greatest common divisor of a >= 0 and b >= 0
RECURSIVE Gcd(_, _)
Gcd(a, b) == IF b = 0 THEN a ELSE Gcd(b, a % b)

\* The rational x (x.d > 0) in lowest terms.
Lowest(x) ==
    LET g == Gcd(IF x.n < 0 THEN -x.n ELSE x.n, x.d)
    IN Rat(x.n \div g, x.d \div g)

\* The rationals x and y are the same number.
RatEq(x, y) == Lowest(x) = Lowest(y)

\* C16: the decoded latitude is degrees (2 characters) + minutes / 60, not
\* negative for hemisphere N and not positive for S; the decoded longitude is
\* degrees (3 characters) + minutes / 60, not negative for E and not positive
\* for W.
C16_SignedDegrees ==
    f_dd # <<>> =>
        LET lat == f_dd[1]
            lon == f_dd[2]
            latAbs == DegreesMinutes(f_in.lat_val, 2)
            lonAbs == DegreesMinutes(f_in.lon_val, 3)
        IN /\ lat.d > 0 /\ lon.d > 0
           /\ f_in.lat_h = <<"N">> => RatEq(lat, latAbs) /\ lat.n >= 0
           /\ f_in.lat_h = <<"S">> => RatEq(RatTimes(lat, -1), latAbs) /\ lat.n <= 0
           /\ f_in.lon_h = <<"E">> => RatEq(lon, lonAbs) /\ lon.n >= 0
           /\ f_in.lon_h = <<"W">> => RatEq(RatTimes(lon, -1), lonAbs) /\ lon.n <= 0

\* A fix in the southern and western hemispheres has been decoded.
C16_Witness ==
    /\ f_dd # <<>>
    /\ f_in.lat_h = <<"S">> /\ f_in.lon_h = <<"W">>
    /\ f_dd[1].n < 0 /\ f_dd[2].n < 0

\* lo <= x <= hi, for a rational x with a positive denominator.
Within(x, lo, hi) == lo * x.d <= x.n /\ x.n <= hi * x.d

Letters(first, last) == {UpperCase[i] : i \in first..last}

SmallLetters(first, last) == {LowerCase[i] : i \in first..last}

\* C22: for every latitude in [-90, 90] and longitude in [-180, 180],
\* boundaries included, latlon_to_grid returns exactly 6 characters: the first
\* pair in A..R, the second pair in 0..9, the third pair in a..x.
C22_GridAlphabets ==
    (f_grid # <<>> /\ Within(f_dd[1], -90, 90) /\ Within(f_dd[2], -180, 180))
        => /\ Len(f_grid) = 6
           /\ {f_grid[1], f_grid[2]} \subseteq Letters(1, 18)
           /\ {f_grid[3], f_grid[4]} \subseteq Range(Digits)
           /\ {f_grid[5], f_grid[6]} \subseteq SmallLetters(1, 24)

\* The same away from the upper boundaries: latitude below 90 and longitude
\* below 180.
GridAlphabetsInside ==
    (f_grid # <<>> /\ f_dd[1] # Rat(5400000, 60000) /\ f_dd[2] # Rat(10800000, 60000))
        => C22_GridAlphabets

-----------------------------------------------------------------------------
(* Lines the decoders pass over *)

\* Sentences that start with neither $GPRMC nor $GPGGA, or that have 9 or
\* fewer fields.
IgnoredSentences == {Gsv, GnRmc, RmcShort, GgaShort}

\* C17: a line that starts with neither $GPRMC nor $GPGGA, or that has 9 or
\* fewer fields, is appended to the raw log and changes no decoder field.
C17_IgnoredLineOnlyLogged ==
    [][\A x \in IgnoredSentences :
          (lastOp' = "parse_gps" /\ lastChunk' = Line(x))
              => /\ DecoderFields(Decoder') = DecoderFields(Decoder)
                 /\ Decoder'.rawAppended = x]_vars

\* Such a line arrived at a decoder that shows a fix, and was logged.
C17_Witness ==
    /\ lastOp = "parse_gps"
    /\ \E x \in IgnoredSentences : lastChunk = Line(x) /\ Decoder.rawAppended = x
    /\ ~IsUnknown(ShownTime) /\ ~IsUnknown(ShownLat) /\ ~IsUnknown(SurfacedGrid)

-----------------------------------------------------------------------------
(* The device probes: list_serial_devices, list_rigs, list_audio_pairs
   (radio_gui.py, config_tab.py), list_usb_devices, run_ardopcf_probe
   (pat_gui.py) *)

\* Entries of /dev, as <<family, number>>, in the order sorted() gives their
\* paths.
DevOrder ==
    << <<"sda", "1">>, <<"ttyACM", "0">>, <<"ttyS", "0">>, <<"ttyUSB", "0">>,
       <<"ttyUSB", "1">> >>

DevNames == {DevOrder[i] : i \in 1..Len(DevOrder)}

\* Sequences of at most MaxListed different members of S.
Listed(S) ==
    {s \in UNION {[1..n -> S] : n \in 0..MaxListed} :
        \A i \in 1..Len(s) : \A j \in 1..Len(s) : s[i] = s[j] => i = j}

\* Lines of the output of rigctl -l, each as the words split() gives.
RigLines ==
    {<<"Rig", "#", "Mfg", "Model", "Version">>, <<"1", "Hamlib", "Dummy", "20231231.0">>,
     <<"3073", "Icom", "IC-7300">>, <<"2050", "FLRig">>}

\* (card, hw) pairs the pattern finds in the output of ardopcf.
AudioMatches == {<<"1", "1,0">>, <<"2", "2,0">>, <<"1", "1,1">>}

\* How the external command, or the listing of /dev, went: it succeeded, the
\* command exited non-zero, the executable or the directory does not exist.
ProbeOutcomes == {"ok", "nonzero", "absent"}

Probed(name, outcome, given, result, exc) ==
    [name |-> name, outcome |-> outcome, given |-> given, result |-> result, exc |-> exc]

\* d.startswith(('ttyUSB', 'ttyACM', 'ttyS'))
IsSerial(d) == d[1] \in {"ttyUSB", "ttyACM", "ttyS"}

\* d.startswith('ttyUSB')
IsUsb(d) == d[1] = "ttyUSB"

\* sorted(f"/dev/{d}" for d in listing if ...): the paths in sorted order.
RECURSIVE SortedPaths(_, _)
SortedPaths(listing, i) ==
    IF i > Len(DevOrder) THEN <<>>
    ELSE (IF IsSerial(DevOrder[i]) /\ \E j \in 1..Len(listing) : listing[j] = DevOrder[i]
          THEN << <<"/dev/">> \o DevOrder[i] >> ELSE <<>>)
         \o SortedPaths(listing, i + 1)

\* list_serial_devices: FileNotFoundError is caught.
list_serial_devices(outcome, listing) ==
    /\ outcome \in {"ok", "absent"}
    /\ probe' = IF outcome = "ok"
                THEN Probed("list_serial_devices", outcome, listing,
                            SortedPaths(listing, 1), "none")
                ELSE Probed("list_serial_devices", outcome, <<>>, <<>>, "none")
    /\ UNCHANGED <<fixVars, cfg_g, supVars, buildVars, gpsVars, logVars>>

\* The rigs of the lines of three or more words.
RECURSIVE RigsOf(_)
RigsOf(lines) ==
    IF lines = <<>> THEN <<>>
    ELSE (IF Len(Head(lines)) >= 3
          THEN << <<Head(lines)[1], Head(lines)[2], Head(lines)[3]>> >> ELSE <<>>)
         \o RigsOf(Tail(lines))

\* list_rigs: subprocess.run(..., check=True); only CalledProcessError is
\* caught, the FileNotFoundError of an absent rigctl leaves the function.
list_rigs(outcome, lines) ==
    /\ probe' = CASE outcome = "ok" -> Probed("list_rigs", outcome, lines, RigsOf(lines), "none")
                  [] outcome = "nonzero" -> Probed("list_rigs", outcome, <<>>, <<>>, "none")
                  [] outcome = "absent" ->
                        Probed("list_rigs", outcome, <<>>, <<>>, "FileNotFoundError")
    /\ UNCHANGED <<fixVars, cfg_g, supVars, buildVars, gpsVars, logVars>>

\* The pairs in the order found, each once.
RECURSIVE PairsOf(_, _)
PairsOf(matches, pairs) ==
    IF matches = <<>> THEN pairs
    ELSE PairsOf(Tail(matches),
                 IF \E j \in 1..Len(pairs) : pairs[j] = Head(matches)
                 THEN pairs ELSE Append(pairs, Head(matches)))

\* list_audio_pairs: as list_rigs, with ./ardopcf -m.
list_audio_pairs(outcome, matches) ==
    /\ probe' = CASE outcome = "ok" ->
                        Probed("list_audio_pairs", outcome, matches, PairsOf(matches, <<>>),
                               "none")
                  [] outcome = "nonzero" -> Probed("list_audio_pairs", outcome, <<>>, <<>>, "none")
                  [] outcome = "absent" ->
                        Probed("list_audio_pairs", outcome, <<>>, <<>>, "FileNotFoundError")
    /\ UNCHANGED <<fixVars, cfg_g, supVars, buildVars, gpsVars, logVars>>

\* list_usb_devices of pat_gui.py: os.listdir('/dev') with no handler.
list_usb_devices(outcome, listing) ==
    /\ outcome \in {"ok", "absent"}
    /\ probe' = IF outcome = "ok"
                THEN Probed("list_usb_devices", outcome, listing,
                            SelectSeq(listing, IsUsb), "none")
                ELSE Probed("list_usb_devices", outcome, <<>>, <<>>, "FileNotFoundError")
    /\ UNCHANGED <<fixVars, cfg_g, supVars, buildVars, gpsVars, logVars>>

\* run_ardopcf_probe of pat_gui.py: the set of pairs found; set() on
\* CalledProcessError, nothing else is caught.
run_ardopcf_probe(outcome, matches) ==
    /\ probe' = CASE outcome = "ok" ->
                        Probed("run_ardopcf_probe", outcome, matches,
                               {matches[i] : i \in 1..Len(matches)}, "none")
                  [] outcome = "nonzero" -> Probed("run_ardopcf_probe", outcome, <<>>, {}, "none")
                  [] outcome = "absent" ->
                        Probed("run_ardopcf_probe", outcome, <<>>, {}, "FileNotFoundError")
    /\ UNCHANGED <<fixVars, cfg_g, supVars, buildVars, gpsVars, logVars>>

InitProbe ==
    /\ NoSession
    /\ b_rig = EmptyDict(RigOpts) /\ b_audio = EmptyDict(AudioOpts) /\ b_cmds = <<>>
    /\ gw = <<>> /\ mw = <<>> /\ lastChunk = <<>> /\ gps_exc = "none" /\ alive = TRUE
    /\ observed = {} /\ gridWrite = FALSE
    /\ FixIdle /\ LogIdle
    /\ probe = <<>> /\ cfg_g = <<>>

NextProbe ==
    \E outcome \in ProbeOutcomes :
        \/ \E listing \in Listed(DevNames) : list_serial_devices(outcome, listing)
        \/ \E lines \in Listed(RigLines) : list_rigs(outcome, lines)
        \/ \E matches \in Listed(AudioMatches) : list_audio_pairs(outcome, matches)
        \/ \E listing \in Listed(DevNames) : list_usb_devices(outcome, listing)
        \/ \E matches \in Listed(AudioMatches) : run_ardopcf_probe(outcome, matches)

SpecProbe == InitProbe /\ [][NextProbe]_vars

\* C18: a probe whose command exited non-zero, or whose executable or
\* directory is absent, returns an empty list or set and raises nothing.
C18_ProbeFailuresYieldEmpty ==
    (probe # <<>> /\ probe.outcome # "ok")
        => /\ probe.exc = "none"
           /\ IF probe.name = "run_ardopcf_probe" THEN probe.result = {}
              ELSE probe.result = <<>>

-----------------------------------------------------------------------------
(* Properties of save_config *)

\* The parser save_config writes from.
SavingParser == IF app = "main" THEN cfg_c ELSE cfg_m

\* C19: save_config never raises, whatever the Configure form shows (no rig
\* or no audio card probed among the cases), and rewrites the whole file.
C19_SaveNeverFails ==
    lastOp = "save_config"
        => /\ effects = <<Effect("write_file", "", <<>>)>>
           /\ file = SavingParser

-----------------------------------------------------------------------------
(* main.py hosting the Configure tab and the GPS tab: two parsers, one file *)

\* The str of a text held as its characters.
RECURSIVE Join(_)
Join(s) == IF s = <<>> THEN "" ELSE Head(s) \o Join(Tail(s))

\* GPSWindow.update_grid_config: with a grid, gps_tab's own parser gets the
\* grid and replaces the file; without one, a warning box.
update_grid_config ==
    /\ app \in {"gps_tab", "main"}
    /\ alive
    /\ IF gw.current_grid # NoneVal /\ gw.current_grid # <<>>
       THEN /\ cfg_g' = SetOpt(cfg_g, "gps", "grid", Join(gw.current_grid))
            /\ file' = cfg_g'
            /\ effects' = <<Effect("write_file", "", <<>>), Effect("information", "", <<>>)>>
       ELSE /\ UNCHANGED <<cfg_g, file>>
            /\ effects' = <<Effect("warning", "", <<>>)>>
    /\ lastOp' = "update_grid_config"
    /\ UNCHANGED <<app, usb_var, audio_var, processes, services_running, cfg_m, rig_live,
                   audio_live, cfg_c, rigsAvail, audAvail, savedOnce, startedAfterSave,
                   buildVars, gpsVars, fixVars, probe, logVars>>

\* The $GPGGA sentences the receiver sends in these sessions.
ViewChunks == {Line(GgaFix1), Line(GgaWest)}

\* After main.py has imported the tabs: every module has read the same file;
\* gps_tab adds the gps section to its parser when the file has none.
InitViews ==
    /\ InitToggleApp
    /\ app = "main"
    /\ processes = <<>>
    /\ services_running = FALSE
    /\ effects = <<>>
    /\ lastOp = "init"
    /\ savedOnce = FALSE
    /\ startedAfterSave = FALSE
    /\ b_rig = EmptyDict(RigOpts) /\ b_audio = EmptyDict(AudioOpts) /\ b_cmds = <<>>
    /\ gw = InitGw /\ mw = <<>> /\ lastChunk = <<>> /\ gps_exc = "none" /\ alive = TRUE
    /\ observed = {} /\ gridWrite = FALSE
    /\ FixIdle /\ probe = <<>> /\ LogIdle
    /\ cfg_g = AddSection(file, "gps")

NextViews ==
    \/ \E form \in Forms(rigsAvail, audAvail) : ConfigTabSaveConfig(form)
    \/ update_grid_config
    \/ \E chunk \in ViewChunks : GPSWindow_parse_gps(chunk)

SpecViews == InitViews /\ [][NextViews]_vars

\* The options a view other than the Configure tab saves, and those a view
\* other than the GPS tab saves.
KeptBySave(c) == c.gps.opt.grid

KeptByGridUpdate(c) == <<c.rigctld.opt, c.audio.opt, c.gps.opt.device>>

\* C20: the file holds for every key the value most recently saved by any
\* view: a rewrite of the file by the Configure tab leaves the grid the GPS
\* tab saved, and a rewrite by the GPS tab leaves the keys the Configure tab
\* saved.
C20_ViewsAgreeWithFile ==
    [][/\ lastOp' = "save_config" => KeptBySave(file') = KeptBySave(file)
       /\ lastOp' = "update_grid_config"
              => KeptByGridUpdate(file') = KeptByGridUpdate(file)]_vars

----------------------------------------------------------------------------
(* Forwarding the services' output to the display log *)

\* The most lines the supervised processes write in a session.
MaxEmitted == 3

ServiceChars ==
    [rigctld |-> <<"r", "i", "g", "c", "t", "l", "d">>,
     ardopcf |-> <<"a", "r", "d", "o", "p", "c", "f">>,
     pat |-> <<"p", "a", "t">>]

\* The k-th line written in a session, by the service called name: the text of
\* a line differs from the text of every other line, and names its writer.
LineText(name, k) == <<ServiceChars[name][1], Digits[k + 1]>>

\* f"[{name}] {line}"
Tagged(name, line) == <<"[">> \o ServiceChars[name] \o <<"]", " ">> \o line

\* A supervised process writes one line, newline included, to its merged
\* stdout/stderr.
Emit(i) ==
    /\ i \in 1..Len(streams)
    /\ streams[i].open
    /\ Len(emitted) < MaxEmitted
    /\ LET line == LineText(streams[i].name, Len(emitted) + 1)
       IN /\ streams' = [streams EXCEPT ![i].pipe = @ \o line \o <<NL>>]
          /\ emitted' = Append(emitted, <<streams[i].name, line>>)
    /\ UNCHANGED <<supVars, notSup, forwarded>>

\* _stream_output, `for line in proc.stdout`: the worker thread takes the next
\* line, its newline included, or what is left before end of file.
StreamOutputNext(i) ==
    /\ app = "pat_gui"
    /\ i \in 1..Len(streams)
    /\ streams[i].held = <<>>
    /\ LET pipe == streams[i].pipe
           k == Find(pipe, NL, 1)
       IN /\ k <= Len(pipe) \/ (~streams[i].open /\ pipe # <<>>)
          /\ streams' = [streams EXCEPT ![i].held = SubSeq(pipe, 1, Min(k, Len(pipe))),
                                        ![i].pipe = SubSeq(pipe, k + 1, Len(pipe))]
    /\ UNCHANGED <<supVars, notSup, forwarded, emitted>>

\* _stream_output, the loop body: self.console.insert("end", f"[{name}] {line}")
\* and self.console.see("end"), which scrolls and changes no text. Tkinter
\* serialises the calls of the threads, so an insert is one step.
StreamOutputInsert(i) ==
    /\ app = "pat_gui"
    /\ i \in 1..Len(streams)
    /\ streams[i].held # <<>>
    /\ forwarded' = forwarded \o Tagged(streams[i].name, streams[i].held)
    /\ streams' = Live([streams EXCEPT ![i].held = <<>>])
    /\ UNCHANGED <<supVars, notSup, emitted>>

\* QPlainTextEdit.appendPlainText(text): a new paragraph at the end of the
\* document; an empty document takes the text as its first paragraph.
appendPlainText(doc, text) == IF doc = <<>> THEN text ELSE doc \o <<NL>> \o text

\* The readyReadStandardOutput slot of process i, run by the event loop:
\* output_console.appendPlainText(pr.readAllStandardOutput().data().decode()).
ReadyRead(i) ==
    /\ app \in {"radio_gui", "main"}
    /\ i \in 1..Len(streams)
    /\ streams[i].pipe # <<>>
    /\ forwarded' = appendPlainText(forwarded, streams[i].pipe)
    /\ streams' = Live([streams EXCEPT ![i].pipe = <<>>])
    /\ effects' = <<>>
    /\ lastOp' = "readyRead"
    /\ UNCHANGED <<app, usb_var, audio_var, processes, services_running, cfgVars>>
    /\ UNCHANGED <<notSup, emitted>>

\* The sessions whose output is followed: pat_gui.py with a device and an audio
\* pair selected, radio_gui.py and main.py with a complete configuration file.
InitLog ==
    /\ InitSup
    /\ app = "pat_gui" => usb_var # "" /\ audio_var # NoText
    /\ app # "pat_gui" => file = FileFull /\ rigsAvail = <<>> /\ audAvail = <<>>

NextLog ==
    \/ \E failAt \in 0..3 : start_services(failAt)
    \/ stop_services
    \/ \E upSet \in SUBSET NameSet : toggle_services(upSet)
    \/ \E i \in 1..MaxHandles : Emit(i)
    \/ \E i \in 1..MaxHandles : StreamOutputNext(i)
    \/ \E i \in 1..MaxHandles : StreamOutputInsert(i)
    \/ \E i \in 1..MaxHandles : ReadyRead(i)

SpecLog == InitLog /\ [][NextLog]_vars

\* The lines of the display log.
LogLines == Split(forwarded, NL)

\* How often the j-th line written appears in the log, prefixed with its own
\* service name.
Shown(j) ==
    Cardinality({k \in 1..Len(LogLines) : LogLines[k] = Tagged(emitted[j][1], emitted[j][2])})

\* Nothing written is still on its way to the log.
Drained == \A i \in 1..Len(streams) : streams[i].pipe = <<>> /\ streams[i].held = <<>>

\* C21: under any interleaving of the forwarders, each line a supervised
\* process writes appears in the display log exactly once, intact and prefixed
\* with the name of its own service: every line of the log that holds text is
\* such a tagged line, no line is shown twice, and every line is shown once
\* all output has been read.
C21_TaggedForwarding ==
    /\ \A k \in 1..Len(LogLines) :
           LogLines[k] # <<>>
               => \E j \in 1..Len(emitted) : LogLines[k] = Tagged(emitted[j][1], emitted[j][2])
    /\ \A j \in 1..Len(emitted) : Shown(j) <= 1
    /\ Drained => \A j \in 1..Len(emitted) : Shown(j) = 1

====
